---- MODULE Spec2Model ----
(***************************************************************************)
(* Transactional consistency engine of the mask marketplace backend:       *)
(* TransactionService (single and multi-pharmacy purchases), update_stock  *)
(* and batch_manage_masks, each running in its own SQLAlchemy session      *)
(* against one PostgreSQL store (READ COMMITTED, row locks taken by        *)
(* SELECT ... FOR UPDATE and by the UPDATEs of the flush).                 *)
(*                                                                         *)
(* A session keeps an identity map: the first query that returns a row     *)
(* builds the object; a later query that returns the same row, with or     *)
(* without with_for_update(), hands back the same object and leaves its    *)
(* loaded attributes alone (no populate_existing is requested anywhere in  *)
(* src/).  SessionLocal is built with autoflush=False, so pending changes  *)
(* reach the store only in commit().  Amounts are whole numbers of the     *)
(* smallest currency unit: the arithmetic of the column types (Float for   *)
(* Pharmacy.cash_balance, DECIMAL for User.cash_balance and Mask.price) is *)
(* not modelled.                                                           *)
(***************************************************************************)
EXTENDS Integers, Sequences, FiniteSets, TLC

VARIABLES db, locks, sess, faults

vars == <<db, locks, sess, faults>>

(***************************************************************************)
(* Bounds of the model.                                                    *)
(***************************************************************************)
NumSessions == 2
InitBalance == 3
InitStock == 2
MaxFaults == 1

Sessions == 1..NumSessions
UserIds == {1, 2}
PharmacyIds == {1, 2}

(***************************************************************************)
(* Rows as loaded by init_db / the ETL: every user and pharmacy starts     *)
(* with a non-negative balance, every mask with a positive price and a     *)
(* non-negative stock.  Mask 1 belongs to pharmacy 1, mask 2 to 2.         *)
(***************************************************************************)
MaskRow(name, price, stock_quantity, pharmacy_id) ==
    [name |-> name, price |-> price, stock_quantity |-> stock_quantity,
     pharmacy_id |-> pharmacy_id]

InitMasks ==
    << MaskRow("a", 1, InitStock, 1), MaskRow("b", 2, 1, 2) >>

InitDb ==
    [users |-> [u \in UserIds |-> InitBalance],
     pharmacies |-> [p \in PharmacyIds |-> 0],
     masks |-> InitMasks,
     transactions |-> << >>]

MaskIds == DOMAIN db.masks

(***************************************************************************)
(* Requests.  One record shape for the four endpoints.                     *)
(***************************************************************************)
Item(pharmacy_id, mask_id, quantity) ==
    [pharmacy_id |-> pharmacy_id, mask_id |-> mask_id, quantity |-> quantity]

BatchItem(mask_id, name, price, stock_quantity) ==
    [mask_id |-> mask_id, name |-> name, price |-> price,
     stock_quantity |-> stock_quantity]

TransactionCreate(user_id, pharmacy_id, mask_id, quantity) ==
    [kind |-> "single", user_id |-> user_id,
     items |-> << Item(pharmacy_id, mask_id, quantity) >>,
     mask_id |-> 0, quantity_change |-> 0, pharmacy_id |-> 0, masks |-> << >>]

MultiPharmacyTransactionCreate(user_id, items) ==
    [kind |-> "multi", user_id |-> user_id, items |-> items,
     mask_id |-> 0, quantity_change |-> 0, pharmacy_id |-> 0, masks |-> << >>]

StockUpdateRequest(mask_id, quantity_change) ==
    [kind |-> "stock", user_id |-> 0, items |-> << >>,
     mask_id |-> mask_id, quantity_change |-> quantity_change,
     pharmacy_id |-> 0, masks |-> << >>]

BatchMaskRequest(pharmacy_id, masks) ==
    [kind |-> "batch", user_id |-> 0, items |-> << >>,
     mask_id |-> 0, quantity_change |-> 0,
     pharmacy_id |-> pharmacy_id, masks |-> masks]

(***************************************************************************)
(* The ORM session.                                                        *)
(***************************************************************************)
Obj(row) == [cur |-> row, loaded |-> row]

NewSession(req) ==
    [req |-> req,
     pc |-> CASE req.kind = "single" -> "validate"
              [] req.kind = "multi" -> "validate"
              [] req.kind = "stock" -> "lock_mask"
              [] OTHER -> "pharmacy",
     idx |-> 1,
     users |-> << >>,
     pharmacies |-> << >>,
     masks |-> << >>,
     new_transactions |-> << >>,
     new_masks |-> << >>,
     validated |-> << >>,
     total_amount |-> 0,
     status |-> 0,
     committed |-> FALSE,
     rolled_back |-> FALSE,
     lock_log |-> << >>,
     stale |-> {},
     updated |-> 0,
     failed |-> 0,
     aborted |-> FALSE,
     store_error |-> ""]

UserKey(id) == <<"users", id>>
MaskKey(id) == <<"masks", id>>
PharmacyKey(id) == <<"pharmacies", id>>

LockedByOther(s, k) == \E t \in Sessions \ {s} : k \in locks[t]

(* Query.first() for one primary key: the identity map keeps an object    *)
(* that is already loaded as it is.                                       *)
LoadUser(ss, id) ==
    IF id \in DOMAIN ss.users THEN ss
    ELSE [ss EXCEPT !.users = @ @@ (id :> Obj(db.users[id]))]

LoadPharmacy(ss, id) ==
    IF id \in DOMAIN ss.pharmacies THEN ss
    ELSE [ss EXCEPT !.pharmacies = @ @@ (id :> Obj(db.pharmacies[id]))]

LoadMaskReserving(ss, id) ==
    IF id \in DOMAIN ss.masks THEN ss
    ELSE [ss EXCEPT !.masks = @ @@
            (id :> [cur |-> [db.masks[id] EXCEPT !.stock_quantity = 0],
                    loaded |-> db.masks[id]])]

LoadMask(ss, id) ==
    IF id \in DOMAIN ss.masks THEN ss
    ELSE [ss EXCEPT !.masks = @ @@ (id :> Obj(db.masks[id]))]

(* connection.py: every dialect but sqlite takes SELECT ... FOR UPDATE;    *)
(* settings.database_url is a postgresql:// URL.                           *)
SupportsForUpdate == TRUE

UserExists(id) == id \in DOMAIN db.users
PharmacyExists(id) == id \in DOMAIN db.pharmacies
MaskExists(id) == id \in DOMAIN db.masks

RowExists(k) ==
    CASE k[1] = "users" -> UserExists(k[2])
      [] k[1] = "pharmacies" -> PharmacyExists(k[2])
      [] OTHER -> MaskExists(k[2])

(* safe_query_with_lock: the row lock is taken in the store (see Acquire); *)
(* what the caller gets back is the session's object for that key.         *)
SafeQueryWithLockPopulating(ss, model, pk) ==
    CASE model = "users" -> [ss EXCEPT !.users = (pk :> Obj(db.users[pk])) @@ @]
      [] model = "pharmacies" ->
            [ss EXCEPT !.pharmacies = (pk :> Obj(db.pharmacies[pk])) @@ @]
      [] OTHER -> [ss EXCEPT !.masks = (pk :> Obj(db.masks[pk])) @@ @]

SafeQueryWithLock(ss, model, pk) ==
    CASE model = "users" -> LoadUser(ss, pk)
      [] model = "pharmacies" -> LoadPharmacy(ss, pk)
      [] OTHER -> LoadMask(ss, pk)

AcquireDroppingHeld(s, k) ==
    /\ SupportsForUpdate => ~LockedByOther(s, k)
    /\ locks' = [locks EXCEPT
                   ![s] = IF SupportsForUpdate /\ RowExists(k) THEN {k} ELSE @]

(* The store side of with_for_update(): wait while another transaction     *)
(* holds the row, then hold it until commit or rollback.                   *)
Acquire(s, k) ==
    /\ SupportsForUpdate => ~LockedByOther(s, k)
    /\ locks' = [locks EXCEPT
                   ![s] = IF SupportsForUpdate /\ RowExists(k) THEN @ \cup {k} ELSE @]

(* Bookkeeping of the model, not of the program: the order in which a      *)
(* session asked for row locks, and the attributes whose value in the      *)
(* session's object differed from the row at the moment the lock was held. *)
StaleAttrs(ss, k) ==
    CASE k[1] = "users" ->
            IF ss.users[k[2]].loaded # db.users[k[2]]
            THEN {<<k, "cash_balance">>} ELSE {}
      [] k[1] = "pharmacies" ->
            IF ss.pharmacies[k[2]].loaded # db.pharmacies[k[2]]
            THEN {<<k, "cash_balance">>} ELSE {}
      [] OTHER ->
            {<<k, a>> : a \in {a \in {"name", "price", "stock_quantity"} :
                                 ss.masks[k[2]].loaded[a] # db.masks[k[2]][a]}}

LogLock(ss, k) ==
    [ss EXCEPT !.lock_log = Append(@, k), !.stale = @ \cup StaleAttrs(ss, k)]

(***************************************************************************)
(* validate_transaction_item                                               *)
(***************************************************************************)
InsufficientStockNever(stock_qty, quantity) == FALSE

InsufficientStock(stock_qty, quantity) == stock_qty < quantity

InsufficientBalanceNever(user_balance, total_amount) == FALSE

InsufficientBalance(user_balance, total_amount) == user_balance < total_amount

ValidateTransactionItem(ss, user_id, pharmacy_id, mask_id, quantity) ==
    IF ~UserExists(user_id)
    THEN [status |-> 404, detail |-> "user", sess |-> ss, total_amount |-> 0]
    ELSE LET s1 == LoadUser(ss, user_id) IN
    IF ~PharmacyExists(pharmacy_id)
    THEN [status |-> 404, detail |-> "pharmacy", sess |-> s1, total_amount |-> 0]
    ELSE LET s2 == LoadPharmacy(s1, pharmacy_id) IN
    IF ~(MaskExists(mask_id) /\ db.masks[mask_id].pharmacy_id = pharmacy_id)
    THEN [status |-> 404, detail |-> "mask", sess |-> s2, total_amount |-> 0]
    ELSE LET s3 == LoadMask(s2, mask_id)
             mask == s3.masks[mask_id].cur
             user == s3.users[user_id].cur
             total_amount == mask.price * quantity
         IN
    IF InsufficientStock(mask.stock_quantity, quantity)
    THEN [status |-> 400, detail |-> "stock", sess |-> s3, total_amount |-> 0]
    ELSE IF InsufficientBalance(user, total_amount)
    THEN [status |-> 400, detail |-> "balance", sess |-> s3, total_amount |-> 0]
    ELSE [status |-> 0, detail |-> "", sess |-> s3, total_amount |-> total_amount]

(***************************************************************************)
(* How a handler ends.                                                     *)
(***************************************************************************)
(* Session.rollback(): pending objects are dropped, loaded ones expired.   *)
Rollback(ss) ==
    [ss EXCEPT !.users = << >>, !.pharmacies = << >>, !.masks = << >>,
               !.new_transactions = << >>, !.new_masks = << >>,
               !.rolled_back = TRUE]

(* An exception no except clause of the handler catches: the response is   *)
(* sent and the session is left to get_db's finally.                       *)
Uncaught(ss, code) == [ss EXCEPT !.status = code, !.pc = "closing"]

RolledBackAsInternal(ss, code) ==
    [Rollback(ss) EXCEPT !.status = 500, !.pc = "done"]

(* except ...: self.db.rollback(); raise HTTPException(code)               *)
RolledBackWith(ss, code) == [Rollback(ss) EXCEPT !.status = code, !.pc = "done"]

TransactionOfFirstPharmacy(s, user_id, item, unit_price, total_amount) ==
    [sid |-> s, user_id |-> user_id, pharmacy_id |-> 1,
     mask_id |-> item.mask_id, quantity |-> item.quantity,
     unit_price |-> unit_price, total_amount |-> total_amount]

Transaction(s, user_id, item, unit_price, total_amount) ==
    [sid |-> s, user_id |-> user_id, pharmacy_id |-> item.pharmacy_id,
     mask_id |-> item.mask_id, quantity |-> item.quantity,
     unit_price |-> unit_price, total_amount |-> total_amount]

(***************************************************************************)
(* create_single_transaction                                               *)
(***************************************************************************)
SingleItem(ss) == ss.req.items[1]

(* Step 1: validate_transaction_item.  An HTTPException raised here or in  *)
(* step 3 is caught by none of the except clauses of this method.          *)
SingleValidate(s) ==
    LET ss == sess[s]
        item == SingleItem(ss)
        r == ValidateTransactionItem(ss, ss.req.user_id, item.pharmacy_id,
                                     item.mask_id, item.quantity)
    IN /\ ss.req.kind = "single"
       /\ ss.pc = "validate"
       /\ sess' = [sess EXCEPT ![s] =
                     IF r.status # 0 THEN Uncaught(r.sess, r.status)
                     ELSE [r.sess EXCEPT !.pc = "lock_user"]]
       /\ UNCHANGED <<db, locks, faults>>

(* Step 2: the three locking re-queries, user, then mask, then pharmacy.   *)
SingleLockUser(s) ==
    LET ss == sess[s]
        k == UserKey(ss.req.user_id)
    IN /\ ss.req.kind = "single"
       /\ ss.pc = "lock_user"
       /\ Acquire(s, k)
       /\ sess' = [sess EXCEPT ![s] =
                     [LogLock(SafeQueryWithLock(ss, "users", k[2]), k)
                        EXCEPT !.pc = "lock_mask"]]
       /\ UNCHANGED <<db, faults>>

SingleLockMask(s) ==
    LET ss == sess[s]
        k == MaskKey(SingleItem(ss).mask_id)
    IN /\ ss.req.kind = "single"
       /\ ss.pc = "lock_mask"
       /\ Acquire(s, k)
       /\ sess' = [sess EXCEPT ![s] =
                     [LogLock(SafeQueryWithLock(ss, "masks", k[2]), k)
                        EXCEPT !.pc = "lock_pharmacy"]]
       /\ UNCHANGED <<db, faults>>

(* Steps 3 and 4 on the locked objects: recheck, build the Transaction,    *)
(* update stock and both balances, db.add.                                 *)
SingleRecheckAndApply(s, ss) ==
    LET item == SingleItem(ss)
        user_id == ss.req.user_id
        user_locked == ss.users[user_id].cur
        mask_locked == ss.masks[item.mask_id].cur
        pharmacy_locked == ss.pharmacies[item.pharmacy_id].cur
        final_total == mask_locked.price * item.quantity
        transaction == Transaction(s, user_id, item, mask_locked.price, final_total)
    IN IF ~(UserExists(user_id) /\ MaskExists(item.mask_id)
              /\ PharmacyExists(item.pharmacy_id))
       THEN Uncaught(ss, 404)
       ELSE IF InsufficientStock(mask_locked.stock_quantity, item.quantity)
       THEN Uncaught(ss, 400)
       ELSE IF InsufficientBalance(user_locked, final_total)
       THEN Uncaught(ss, 400)
       ELSE [ss EXCEPT
               !.masks[item.mask_id].cur.stock_quantity = @ - item.quantity,
               !.users[user_id].cur = @ - final_total,
               !.pharmacies[item.pharmacy_id].cur = @ + final_total,
               !.new_transactions = Append(@, transaction),
               !.pc = "commit"]

SingleLockPharmacy(s) ==
    LET ss == sess[s]
        k == PharmacyKey(SingleItem(ss).pharmacy_id)
    IN /\ ss.req.kind = "single"
       /\ ss.pc = "lock_pharmacy"
       /\ Acquire(s, k)
       /\ sess' = [sess EXCEPT ![s] =
                     SingleRecheckAndApply(
                        s, LogLock(SafeQueryWithLock(ss, "pharmacies", k[2]), k))]
       /\ UNCHANGED <<db, faults>>

(***************************************************************************)
(* create_multi_pharmacy_transaction                                       *)
(***************************************************************************)
(* Phases 1 and 2: validate_transaction_item for the item at idx; after    *)
(* the last one, the check of the summed total against the balance of the  *)
(* user object the first item returned.  except HTTPException rolls back.  *)
MultiValidate(s) ==
    LET ss == sess[s]
        item == ss.req.items[ss.idx]
        r == ValidateTransactionItem(ss, ss.req.user_id, item.pharmacy_id,
                                     item.mask_id, item.quantity)
        total_amount == ss.total_amount + r.total_amount
        user_obj == r.sess.users[ss.req.user_id].cur
    IN /\ ss.req.kind = "multi"
       /\ ss.pc = "validate"
       /\ sess' = [sess EXCEPT ![s] =
            IF r.status # 0 THEN RolledBackWith(r.sess, r.status)
            ELSE IF ss.idx < Len(ss.req.items)
            THEN [r.sess EXCEPT !.validated = Append(@, r.total_amount),
                                !.total_amount = total_amount,
                                !.idx = @ + 1]
            ELSE IF InsufficientBalance(user_obj, total_amount)
            THEN RolledBackWith(r.sess, 400)
            ELSE [r.sess EXCEPT !.validated = Append(@, r.total_amount),
                                !.total_amount = total_amount,
                                !.idx = 1,
                                !.pc = "lock_user"]]
       /\ UNCHANGED <<db, locks, faults>>

(* Phase 3, first half: lock the user and recheck the summed total.        *)
MultiLockUser(s) ==
    LET ss == sess[s]
        k == UserKey(ss.req.user_id)
        s1 == LogLock(SafeQueryWithLock(ss, "users", k[2]), k)
        user_locked == s1.users[k[2]].cur
        fails == ~UserExists(k[2]) \/ InsufficientBalance(user_locked, ss.total_amount)
    IN /\ ss.req.kind = "multi"
       /\ ss.pc = "lock_user"
       /\ SupportsForUpdate => ~LockedByOther(s, k)
       /\ sess' = [sess EXCEPT ![s] =
            IF ~UserExists(k[2]) THEN RolledBackWith(ss, 404)
            ELSE IF fails THEN RolledBackWith(s1, 400)
            ELSE [s1 EXCEPT !.pc = "lock_mask"]]
       /\ locks' = [locks EXCEPT ![s] =
            IF fails \/ ~SupportsForUpdate THEN {} ELSE @ \cup {k}]
       /\ UNCHANGED <<db, faults>>

(* Phase 3, one turn of the loop over validated_items: lock the mask,      *)
(* recheck its stock, build the Transaction from the locked price and the  *)
(* validated item_total, decrement the locked mask and credit the pharmacy *)
(* object that validation returned; after the last item, debit the user.   *)
MultiApplyItemLastOnly(s, ss) ==
    LET item == ss.req.items[ss.idx]
        item_total == ss.validated[ss.idx]
        mask_locked == ss.masks[item.mask_id].cur
        transaction == Transaction(s, ss.req.user_id, item, mask_locked.price,
                                   item_total)
        applied == [ss EXCEPT
                      !.masks[item.mask_id].cur.stock_quantity = @ - item.quantity,
                      !.pharmacies[item.pharmacy_id].cur = @ + item_total,
                      !.new_transactions = << transaction >>]
    IN IF ss.idx < Len(ss.req.items)
       THEN [applied EXCEPT !.idx = @ + 1]
       ELSE [applied EXCEPT !.users[ss.req.user_id].cur = @ - ss.total_amount,
                            !.pc = "commit"]

MultiApplyItem(s, ss) ==
    LET item == ss.req.items[ss.idx]
        item_total == ss.validated[ss.idx]
        mask_locked == ss.masks[item.mask_id].cur
        transaction == Transaction(s, ss.req.user_id, item, mask_locked.price,
                                   item_total)
        applied == [ss EXCEPT
                      !.masks[item.mask_id].cur.stock_quantity = @ - item.quantity,
                      !.pharmacies[item.pharmacy_id].cur = @ + item_total,
                      !.new_transactions = Append(@, transaction)]
    IN IF ss.idx < Len(ss.req.items)
       THEN [applied EXCEPT !.idx = @ + 1]
       ELSE [applied EXCEPT !.users[ss.req.user_id].cur = @ - ss.total_amount,
                            !.pc = "commit"]

MultiLockMask(s) ==
    LET ss == sess[s]
        item == ss.req.items[ss.idx]
        k == MaskKey(item.mask_id)
        s1 == LogLock(SafeQueryWithLock(ss, "masks", k[2]), k)
        fails == \/ ~MaskExists(k[2])
                 \/ InsufficientStock(s1.masks[k[2]].cur.stock_quantity, item.quantity)
    IN /\ ss.req.kind = "multi"
       /\ ss.pc = "lock_mask"
       /\ SupportsForUpdate => ~LockedByOther(s, k)
       /\ sess' = [sess EXCEPT ![s] =
            IF ~MaskExists(k[2]) THEN RolledBackWith(ss, 404)
            ELSE IF fails THEN RolledBackWith(s1, 400)
            ELSE MultiApplyItem(s, s1)]
       /\ locks' = [locks EXCEPT ![s] =
            IF fails \/ ~SupportsForUpdate THEN {} ELSE @ \cup {k}]
       /\ UNCHANGED <<db, faults>>

(***************************************************************************)
(* update_stock                                                            *)
(***************************************************************************)
NegativeResultStrict(new_quantity) == new_quantity <= 0

NegativeResultAllowed(new_quantity) == FALSE

NegativeResult(new_quantity) == new_quantity < 0

(* The locking query and both checks stand before the try block: their     *)
(* HTTPExceptions leave the session to get_db's finally.                   *)
UpdateStockLock(s) ==
    LET ss == sess[s]
        mask_id == ss.req.mask_id
        k == MaskKey(mask_id)
        s1 == LogLock(LoadMask(ss, mask_id), k)
        old_quantity == s1.masks[mask_id].cur.stock_quantity
        new_quantity == old_quantity + ss.req.quantity_change
    IN /\ ss.req.kind = "stock"
       /\ ss.pc = "lock_mask"
       /\ Acquire(s, k)
       /\ sess' = [sess EXCEPT ![s] =
            IF ~MaskExists(mask_id) THEN Uncaught(ss, 404)
            ELSE IF NegativeResult(new_quantity) THEN Uncaught(s1, 400)
            ELSE [s1 EXCEPT !.masks[mask_id].cur.stock_quantity = new_quantity,
                            !.pc = "commit"]]
       /\ UNCHANGED <<db, faults>>

(***************************************************************************)
(* batch_manage_masks                                                      *)
(***************************************************************************)
NamesToCreate(req) ==
    LET RECURSIVE Names(_)
        Names(i) ==
            IF i > Len(req.masks) THEN << >>
            ELSE IF req.masks[i].mask_id = 0
                 THEN <<req.masks[i].name>> \o Names(i + 1)
                 ELSE Names(i + 1)
    IN Names(1)

HasDuplicatesNever(seq) == FALSE

HasDuplicates(seq) ==
    \E i, j \in DOMAIN seq : i < j /\ seq[i] = seq[j]

(* The pharmacy lookup and the in-request duplicate check.                 *)
BatchPharmacy(s) ==
    LET ss == sess[s]
        names_to_create_list == NamesToCreate(ss.req)
    IN /\ ss.req.kind = "batch"
       /\ ss.pc = "pharmacy"
       /\ sess' = [sess EXCEPT ![s] =
            IF ~PharmacyExists(ss.req.pharmacy_id) THEN Uncaught(ss, 404)
            ELSE IF HasDuplicates(names_to_create_list)
            THEN Uncaught(LoadPharmacy(ss, ss.req.pharmacy_id), 409)
            ELSE [LoadPharmacy(ss, ss.req.pharmacy_id) EXCEPT
                    !.pc = IF names_to_create_list = << >> THEN "item" ELSE "names"]]
       /\ UNCHANGED <<db, locks, faults>>

(* The query for names the pharmacy already has.                           *)
BatchNames(s) ==
    LET ss == sess[s]
        names_to_create_set ==
            {NamesToCreate(ss.req)[i] : i \in DOMAIN NamesToCreate(ss.req)}
        existing_masks ==
            {m \in DOMAIN db.masks :
                /\ db.masks[m].pharmacy_id = ss.req.pharmacy_id
                /\ db.masks[m].name \in names_to_create_set}
    IN /\ ss.req.kind = "batch"
       /\ ss.pc = "names"
       /\ sess' = [sess EXCEPT ![s] =
            IF existing_masks # {} THEN Uncaught(ss, 409)
            ELSE [ss EXCEPT !.pc = "item"]]
       /\ UNCHANGED <<db, locks, faults>>

NextBatchItemOnce(ss) == [ss EXCEPT !.pc = "commit"]

NextBatchItem(ss) ==
    IF ss.idx < Len(ss.req.masks) THEN [ss EXCEPT !.idx = @ + 1]
    ELSE [ss EXCEPT !.pc = "commit"]

(* One turn of the loop over batch_request.masks.  With a mask_id the row  *)
(* is looked up under the pharmacy filter with a lock and overwritten;     *)
(* without one a new Mask is added to the session.  Once a statement has   *)
(* failed inside the loop the store refuses every further statement of the *)
(* transaction, which the inner except turns into one more failed item.    *)
BatchItemStep(s) ==
    LET ss == sess[s]
        item == ss.req.masks[ss.idx]
        k == MaskKey(item.mask_id)
        found == /\ MaskExists(item.mask_id)
                 /\ db.masks[item.mask_id].pharmacy_id = ss.req.pharmacy_id
        s1 == LogLock(LoadMask(ss, item.mask_id), k)
    IN /\ ss.req.kind = "batch"
       /\ ss.pc = "item"
       /\ IF item.mask_id # 0 /\ ~ss.aborted
          THEN /\ (SupportsForUpdate /\ found) => ~LockedByOther(s, k)
               /\ locks' = [locks EXCEPT ![s] =
                    IF SupportsForUpdate /\ found THEN @ \cup {k} ELSE @]
               /\ sess' = [sess EXCEPT ![s] =
                    IF ~found THEN NextBatchItem([ss EXCEPT !.failed = @ + 1])
                    ELSE NextBatchItem(
                           [s1 EXCEPT
                              !.masks[item.mask_id].cur.name = item.name,
                              !.masks[item.mask_id].cur.price = item.price,
                              !.masks[item.mask_id].cur.stock_quantity =
                                  item.stock_quantity,
                              !.updated = @ + 1])]
          ELSE /\ locks' = locks
               /\ sess' = [sess EXCEPT ![s] =
                    IF item.mask_id # 0
                    THEN NextBatchItem([ss EXCEPT !.failed = @ + 1])
                    ELSE NextBatchItem(
                           [ss EXCEPT !.new_masks =
                              Append(@, MaskRow(item.name, item.price,
                                                item.stock_quantity,
                                                ss.req.pharmacy_id))])]
       /\ UNCHANGED <<db, faults>>

(***************************************************************************)
(* Session.commit(): the flush writes, for every loaded object, the        *)
(* attributes whose value differs from the loaded one (UPDATE ... SET      *)
(* col = value WHERE id = pk), INSERTs the pending objects, and COMMIT     *)
(* releases the row locks.  An UPDATE waits for a row another transaction  *)
(* holds.                                                                  *)
(***************************************************************************)
Dirty(objs) == {id \in DOMAIN objs : objs[id].cur # objs[id].loaded}

FlushKeys(ss) ==
    {UserKey(id) : id \in Dirty(ss.users)}
        \cup {PharmacyKey(id) : id \in Dirty(ss.pharmacies)}
        \cup {MaskKey(id) : id \in Dirty(ss.masks)}

ChangedNever(obj, row, attr) == row[attr]

Changed(obj, row, attr) ==
    IF obj.cur[attr] # obj.loaded[attr] THEN obj.cur[attr] ELSE row[attr]

FlushUserOnly(ss) ==
    [db EXCEPT !.users = [id \in DOMAIN db.users |->
                            IF id \in Dirty(ss.users) THEN ss.users[id].cur
                            ELSE db.users[id]]]

FlushReplacingRows(ss) ==
    [db EXCEPT !.transactions = ss.new_transactions]

FlushRowsOnly(ss) ==
    [db EXCEPT !.transactions = @ \o ss.new_transactions]

Flush(ss) ==
    [users |-> [id \in DOMAIN db.users |->
                  IF id \in Dirty(ss.users) THEN ss.users[id].cur
                  ELSE db.users[id]],
     pharmacies |-> [id \in DOMAIN db.pharmacies |->
                  IF id \in Dirty(ss.pharmacies) THEN ss.pharmacies[id].cur
                  ELSE db.pharmacies[id]],
     masks |-> [id \in DOMAIN db.masks |->
                  IF id \in Dirty(ss.masks)
                  THEN MaskRow(Changed(ss.masks[id], db.masks[id], "name"),
                               Changed(ss.masks[id], db.masks[id], "price"),
                               Changed(ss.masks[id], db.masks[id], "stock_quantity"),
                               db.masks[id].pharmacy_id)
                  ELSE db.masks[id]] \o ss.new_masks,
     transactions |-> db.transactions \o ss.new_transactions]

Expire(ss) == [ss EXCEPT !.users = << >>, !.pharmacies = << >>, !.masks = << >>]

HasWrites(ss) ==
    FlushKeys(ss) # {} \/ ss.new_masks # << >> \/ ss.new_transactions # << >>

(* db.commit().  In a transaction the store has already aborted, a flush   *)
(* with something to write fails (except SQLAlchemyError: rollback, 500);  *)
(* with nothing to write, COMMIT ends the aborted transaction quietly.     *)
Commit(s) ==
    LET ss == sess[s]
    IN /\ ss.pc = "commit"
       /\ IF ss.aborted
          THEN /\ db' = db
               /\ sess' = [sess EXCEPT ![s] =
                    IF HasWrites(ss) THEN RolledBackWith(ss, 500)
                    ELSE [Expire(ss) EXCEPT !.pc = "refresh"]]
          ELSE /\ \A k \in FlushKeys(ss) : ~LockedByOther(s, k)
               /\ db' = Flush(ss)
               /\ sess' = [sess EXCEPT ![s] =
                    [Expire(ss) EXCEPT !.committed = TRUE, !.pc = "refresh"]]
       /\ locks' = [locks EXCEPT ![s] = {}]
       /\ UNCHANGED faults

SuccessStatus(kind) == IF kind = "stock" THEN 200 ELSE 201

RefreshForUpdate(s) ==
    LET ss == sess[s]
    IN /\ ss.pc = "refresh"
       /\ sess' = [sess EXCEPT ![s] =
            [ss EXCEPT !.status = SuccessStatus(ss.req.kind), !.pc = "done"]]
       /\ locks' = [locks EXCEPT ![s] =
            {k \in {UserKey(ss.req.user_id)} : RowExists(k)}]
       /\ UNCHANGED <<db, faults>>

(* db.refresh(...) of what was written, then the response.                 *)
Refresh(s) ==
    LET ss == sess[s]
    IN /\ ss.pc = "refresh"
       /\ sess' = [sess EXCEPT ![s] =
            [ss EXCEPT !.status = SuccessStatus(ss.req.kind), !.pc = "done"]]
       /\ UNCHANGED <<db, locks, faults>>

CloseKeepingLocks(s) ==
    LET ss == sess[s]
    IN /\ ss.pc = "closing"
       /\ sess' = [sess EXCEPT ![s] =
            [Expire(ss) EXCEPT !.new_transactions = << >>, !.new_masks = << >>,
                               !.pc = "done"]]
       /\ UNCHANGED <<db, locks, faults>>

(* get_db's finally: db.close() ends whatever transaction is still open.   *)
Close(s) ==
    LET ss == sess[s]
    IN /\ ss.pc = "closing"
       /\ sess' = [sess EXCEPT ![s] =
            [Expire(ss) EXCEPT !.new_transactions = << >>, !.new_masks = << >>,
                               !.pc = "done"]]
       /\ locks' = [locks EXCEPT ![s] = {}]
       /\ UNCHANGED <<db, faults>>

(***************************************************************************)
(* Errors the store raises, and the except clauses that receive them.      *)
(***************************************************************************)
DeadlockDetected == "deadlock detected"
LockTimeout == "canceling statement due to lock timeout"
ConnectionLost == "server closed the connection unexpectedly"

(* if "deadlock" in str(e).lower(): 409, else 500                          *)
HasDeadlockText(e) == e = DeadlockDetected

Classify(e) == IF HasDeadlockText(e) THEN 409 ELSE 500

(* The rows the statement a session stands at asks the store to lock.      *)
WantedKeys(s) ==
    LET ss == sess[s]
        wanted ==
            CASE ss.pc = "lock_user" -> {UserKey(ss.req.user_id)}
              [] ss.pc = "lock_mask" /\ ss.req.kind = "stock" ->
                    {MaskKey(ss.req.mask_id)}
              [] ss.pc = "lock_mask" -> {MaskKey(ss.req.items[ss.idx].mask_id)}
              [] ss.pc = "lock_pharmacy" ->
                    {PharmacyKey(ss.req.items[1].pharmacy_id)}
              [] ss.pc = "item" /\ ~ss.aborted ->
                    {MaskKey(ss.req.masks[ss.idx].mask_id)}
              [] ss.pc = "commit" /\ ~ss.aborted -> FlushKeys(ss)
              [] OTHER -> {}
    IN IF SupportsForUpdate THEN {k \in wanted : RowExists(k)} ELSE {}

Blockers(s) == {t \in Sessions \ {s} : WantedKeys(s) \cap locks[t] # {}}

Blocked(s) == Blockers(s) # {}

RECURSIVE WaitClosure(_, _)
WaitClosure(S, n) ==
    IF n = 0 THEN S
    ELSE WaitClosure(S \cup UNION {Blockers(t) : t \in S}, n - 1)

InWaitCycle(s) == s \in WaitClosure(Blockers(s), NumSessions)

(* The handler's reaction to error e raised by the statement at ss.pc.     *)
OnStoreError(ss, e) ==
    LET kind == ss.req.kind
        noted == [ss EXCEPT !.store_error = e]
    IN CASE kind \in {"single", "multi"} -> RolledBackWith(noted, Classify(e))
         [] kind = "stock" /\ ss.pc = "lock_mask" -> Uncaught(noted, 500)
         [] kind = "batch" /\ ss.pc \in {"pharmacy", "names"} -> Uncaught(noted, 500)
         [] kind = "batch" /\ ss.pc = "item" ->
                NextBatchItem([Expire(noted) EXCEPT !.failed = @ + 1,
                                                    !.aborted = TRUE])
         [] OTHER -> RolledBackWith(noted, Classify(e))

(* The store ends a circular wait by failing the statement of one of the   *)
(* waiting transactions, which aborts that transaction.                    *)
Deadlock(s) ==
    /\ Blocked(s)
    /\ InWaitCycle(s)
    /\ sess' = [sess EXCEPT ![s] = OnStoreError(sess[s], DeadlockDetected)]
    /\ locks' = [locks EXCEPT ![s] = {}]
    /\ UNCHANGED <<db, faults>>

FailuresAt(s) ==
    LET ss == sess[s]
    IN (IF Blocked(s) THEN {LockTimeout} ELSE {})
         \cup (IF ss.pc \in {"validate", "lock_user", "lock_mask", "lock_pharmacy",
                             "pharmacy", "names", "commit", "refresh"}
               THEN {ConnectionLost} ELSE {})

StoreFailure(s) ==
    /\ faults < MaxFaults
    /\ \E e \in FailuresAt(s) :
          sess' = [sess EXCEPT ![s] = OnStoreError(sess[s], e)]
    /\ locks' = [locks EXCEPT ![s] = {}]
    /\ faults' = faults + 1
    /\ UNCHANGED db

(***************************************************************************)
(* The requests the sessions are started with.                             *)
(***************************************************************************)
PurchaseRequests ==
    << TransactionCreate(1, 1, 1, 1),
       TransactionCreate(1, 1, 1, InitStock),
       TransactionCreate(2, 2, 2, 1),
       TransactionCreate(1, 2, 2, 1),
       MultiPharmacyTransactionCreate(1, << Item(1, 1, 1), Item(2, 2, 1) >>),
       MultiPharmacyTransactionCreate(2, << Item(2, 2, 1), Item(1, 1, 1) >>),
       MultiPharmacyTransactionCreate(2, [i \in 1..(InitStock + 1) |-> Item(1, 1, 1)]),
       MultiPharmacyTransactionCreate(1, << Item(1, 1, InitStock), Item(2, 2, 1) >>),
       TransactionCreate(3, 1, 1, 1),
       MultiPharmacyTransactionCreate(1, << Item(1, 1, 1), Item(1, 2, 1) >>) >>

StockRequests ==
    << StockUpdateRequest(1, 0 - 1),
       StockUpdateRequest(1, 0 - InitStock - 1),
       StockUpdateRequest(2, 1) >>

BatchRequests ==
    << BatchMaskRequest(1, << BatchItem(1, "a", 2, 1) >>),
       BatchMaskRequest(2, << BatchItem(2, "b", 1, 0), BatchItem(0, "c", 1, 1) >>) >>

Requests == PurchaseRequests \o StockRequests \o BatchRequests

(* Sessions are interchangeable: they are started in menu order.           *)
Started(menu) ==
    {f \in [Sessions -> DOMAIN menu] :
        \A s, t \in Sessions : s < t => f[s] <= f[t]}

InitWith(menu) ==
    /\ db = InitDb
    /\ locks = [s \in Sessions |-> {}]
    /\ faults = 0
    /\ \E f \in Started(menu) : sess = [s \in Sessions |-> NewSession(menu[f[s]])]

Init == InitWith(Requests)

(* What a request does when its worker thread runs; Deadlock is the store  *)
(* failing the statement the thread is waiting in.                         *)
Progress(s) ==
    \/ SingleValidate(s)
    \/ SingleLockUser(s)
    \/ SingleLockMask(s)
    \/ SingleLockPharmacy(s)
    \/ MultiValidate(s)
    \/ MultiLockUser(s)
    \/ MultiLockMask(s)
    \/ UpdateStockLock(s)
    \/ BatchPharmacy(s)
    \/ BatchNames(s)
    \/ BatchItemStep(s)
    \/ Commit(s)
    \/ Refresh(s)
    \/ Close(s)
    \/ Deadlock(s)

Next == \E s \in Sessions : Progress(s) \/ StoreFailure(s)

Spec == Init /\ [][Next]_vars

(***************************************************************************)
(* The same system with the fairness the deployment gives: every request   *)
(* runs on its own worker thread and keeps being scheduled, and the store  *)
(* keeps running its deadlock check while transactions wait.  No store     *)
(* failure is ever owed.                                                   *)
(***************************************************************************)
FairSpec == Spec /\ \A s \in Sessions : WF_vars(Progress(s))

(***************************************************************************)
(* Properties.                                                             *)
(***************************************************************************)
RECURSIVE Sum(_)
Sum(seq) == IF seq = << >> THEN 0 ELSE Head(seq) + Sum(Tail(seq))

IsPurchase(s) == sess[s].req.kind \in {"single", "multi"}

RowsOf(s) == {i \in DOMAIN db.transactions : db.transactions[i].sid = s}

QuantitySold(m) ==
    Sum([i \in DOMAIN db.transactions |->
           IF db.transactions[i].mask_id = m THEN db.transactions[i].quantity ELSE 0])

AmountSpent(u) ==
    Sum([i \in DOMAIN db.transactions |->
           IF db.transactions[i].user_id = u
           THEN db.transactions[i].total_amount ELSE 0])

PendingTotal(ss) ==
    Sum([i \in DOMAIN ss.new_transactions |-> ss.new_transactions[i].total_amount])

PendingTotalFor(ss, p) ==
    Sum([i \in DOMAIN ss.new_transactions |->
           IF ss.new_transactions[i].pharmacy_id = p
           THEN ss.new_transactions[i].total_amount ELSE 0])

OnlyPurchasesCommitted ==
    \A s \in Sessions : sess[s].committed => IsPurchase(s)

(* C1: in every committed state, whatever purchases, stock adjustments and *)
(* batch updates have interleaved, every mask's stock_quantity is >= 0.    *)
C1_StockNonNegative ==
    \A m \in DOMAIN db.masks : db.masks[m].stock_quantity >= 0

C1_Witness ==
    \E s, t \in Sessions :
        /\ sess[s].req.kind = "stock" /\ sess[s].committed
        /\ sess[s].req.quantity_change < 0
        /\ IsPurchase(t) /\ sess[t].committed
        /\ \E i \in RowsOf(t) : db.transactions[i].mask_id = sess[s].req.mask_id
        /\ <<MaskKey(sess[s].req.mask_id), "stock_quantity">> \in sess[t].stale
        /\ db.masks[sess[s].req.mask_id].stock_quantity = 0

C5_BalancesNonNegative ==
    /\ \A u \in DOMAIN db.users : db.users[u] >= 0
    /\ \A p \in DOMAIN db.pharmacies : db.pharmacies[p] >= 0

C5_Witness ==
    \E s, t \in Sessions :
        /\ s # t /\ IsPurchase(s) /\ IsPurchase(t)
        /\ sess[s].committed /\ sess[t].committed
        /\ sess[s].req.user_id = sess[t].req.user_id
        /\ <<UserKey(sess[t].req.user_id), "cash_balance">> \in sess[t].stale
        /\ db.users[sess[s].req.user_id] = 0
        /\ \E p \in DOMAIN db.pharmacies : db.pharmacies[p] > 0

C7_TotalIsPriceTimesQuantity ==
    \A i \in DOMAIN db.transactions :
        db.transactions[i].total_amount =
            db.transactions[i].unit_price * db.transactions[i].quantity

C7_Witness ==
    \E s \in Sessions :
        /\ sess[s].req.kind = "multi" /\ sess[s].committed
        /\ \E i \in RowsOf(s) :
              <<MaskKey(db.transactions[i].mask_id), "price">> \in sess[s].stale

(* C8: every purchase eventually reaches a terminal state; purchases that  *)
(* wait on each other's row locks do not wait for ever.                    *)
C8_EveryPurchaseTerminates ==
    \A s \in Sessions : IsPurchase(s) => <>(sess[s].pc = "done")

C8_Witness ==
    \E s, t \in Sessions :
        /\ s # t /\ IsPurchase(s) /\ IsPurchase(t)
        /\ sess[s].pc = "done" /\ sess[t].pc = "done"
        /\ sess[s].store_error = DeadlockDetected /\ sess[s].status = 409
        /\ sess[t].committed /\ sess[t].status = 201

LockedTotal(ss) ==
    Sum([i \in DOMAIN ss.req.items |->
           db.masks[ss.req.items[i].mask_id].price * ss.req.items[i].quantity])

C12_StoreErrorClassification ==
    \A s \in Sessions :
        (sess[s].req.kind \in {"single", "multi", "stock"}
           /\ sess[s].store_error # "" /\ sess[s].status # 0) =>
            sess[s].status =
                IF sess[s].store_error \in {LockTimeout, DeadlockDetected}
                THEN 409 ELSE 500

(* An error answer whose cause is a rule of the business or a missing      *)
(* record: no statement of the purchase was failed by the store.           *)
BusinessFailure(s) ==
    /\ IsPurchase(s)
    /\ sess[s].status \notin {0, 201}
    /\ sess[s].store_error = ""

C14_BusinessFailureIs4xx ==
    \A s \in Sessions : BusinessFailure(s) => sess[s].status \in {400, 404}

C14_Witness ==
    \E s, t \in Sessions :
        /\ BusinessFailure(s) /\ sess[s].status = 404 /\ sess[s].lock_log = << >>
        /\ BusinessFailure(t) /\ sess[t].status = 400 /\ sess[t].lock_log # << >>

(* C15: every error answer of a purchase is preceded by a rollback of its  *)
(* session.                                                                *)
C15_RollbackBeforeError ==
    \A s \in Sessions :
        (IsPurchase(s) /\ sess[s].status \notin {0, 201}) => sess[s].rolled_back

Terminal(s) == sess[s].committed \/ sess[s].rolled_back \/ sess[s].pc = "done"

(* C17: a purchase that fails in validation ends without ever having       *)
(* asked for a row lock, and a purchase that has committed or rolled back  *)
(* takes no further lock and writes nothing more.                          *)
C17_ValidationFailureAndTerminalStates ==
    [][\A s \in Sessions : IsPurchase(s) =>
         /\ (sess[s].pc = "validate" /\ sess'[s].status # 0) =>
               /\ sess'[s].pc \in {"closing", "done"}
               /\ locks'[s] = {} /\ sess'[s].lock_log = << >>
               /\ ~sess'[s].committed /\ ~HasWrites(sess'[s])
         /\ Terminal(s) =>
               /\ locks'[s] \subseteq locks[s]
               /\ sess'[s].lock_log = sess[s].lock_log
               /\ RowsOf(s)' = RowsOf(s)
               /\ FlushKeys(sess'[s]) = {}
               /\ (\A t \in Sessions \ {s} : sess'[t] = sess[t]) => db' = db]_vars

C17_Witness ==
    \E s, t \in Sessions :
        /\ IsPurchase(s) /\ sess[s].pc = "done" /\ sess[s].status \in {400, 404}
        /\ sess[s].lock_log = << >> /\ sess[s].store_error = ""
        /\ IsPurchase(t) /\ sess[t].pc = "done" /\ sess[t].committed
        /\ sess[t].status = 201 /\ locks[t] = {}

(* C18: a purchase gives up row locks only in the step that commits, rolls *)
(* back or closes its session, and then gives up all of them; a purchase   *)
(* that has ended holds no lock.                                           *)
C18_LocksHeldUntilEnd ==
    /\ [](\A s \in Sessions :
            (IsPurchase(s) /\ sess[s].pc = "done") => locks[s] = {})
    /\ [][\A s \in Sessions :
            (IsPurchase(s) /\ ~(locks[s] \subseteq locks'[s])) =>
               /\ locks'[s] = {}
               /\ \/ ~sess[s].committed /\ sess'[s].committed
                  \/ ~sess[s].rolled_back /\ sess'[s].rolled_back
                  \/ sess[s].pc = "closing" /\ sess'[s].pc = "done"]_vars

C18_Witness ==
    \E s, t \in Sessions :
        /\ IsPurchase(s) /\ sess[s].pc = "done" /\ sess[s].status = 400
        /\ Len(sess[s].lock_log) > 1 /\ sess[s].rolled_back /\ locks[s] = {}
        /\ sess[t].req.kind = "single" /\ sess[t].pc = "done"
        /\ sess[t].store_error # "" /\ Len(sess[t].lock_log) = 3
        /\ ~sess[t].committed /\ sess[t].rolled_back /\ locks[t] = {}

(***************************************************************************)
(* validate_transaction_item on its own: one session calls it again and    *)
(* again, with arguments that hit and miss the rows, against stores that   *)
(* differ in the first user's balance and the first mask's stock.          *)
(***************************************************************************)
MaxQuantity == 2

ArgIds == {1, 2, 3}

ValidateDbs ==
    {[InitDb EXCEPT !.users[1] = b, !.masks[1].stock_quantity = q] :
        b \in 0..InitBalance, q \in 0..InitStock}

ValidateInit ==
    /\ db \in ValidateDbs
    /\ locks = [s \in Sessions |-> {}]
    /\ faults = 0
    /\ sess = [s \in Sessions |-> NewSession(TransactionCreate(1, 1, 1, 1))]

ValidateCall(s) ==
    \E user_id \in ArgIds, pharmacy_id \in ArgIds, mask_id \in ArgIds,
       quantity \in 1..MaxQuantity :
        LET r == ValidateTransactionItem(sess[s], user_id, pharmacy_id,
                                         mask_id, quantity)
        IN /\ sess' = [sess EXCEPT ![s] =
                 [r.sess EXCEPT
                    !.req = TransactionCreate(user_id, pharmacy_id, mask_id, quantity),
                    !.status = r.status,
                    !.total_amount = r.total_amount,
                    !.pc = "validated"]]
           /\ UNCHANGED <<db, locks, faults>>

ValidateNext == ValidateCall(1)

ValidateSpec == ValidateInit /\ [][ValidateNext]_vars

(* The outcome the rows of the store call for, in the stated precedence.   *)
ExpectedDetail(user_id, pharmacy_id, mask_id, quantity) ==
    CASE user_id \notin DOMAIN db.users -> "user"
      [] pharmacy_id \notin DOMAIN db.pharmacies -> "pharmacy"
      [] mask_id \notin DOMAIN db.masks -> "mask"
      [] db.masks[mask_id].pharmacy_id # pharmacy_id -> "mask"
      [] db.masks[mask_id].stock_quantity < quantity -> "stock"
      [] db.users[user_id] < db.masks[mask_id].price * quantity -> "balance"
      [] OTHER -> ""

ExpectedStatus(detail) ==
    CASE detail \in {"user", "pharmacy", "mask"} -> 404
      [] detail \in {"stock", "balance"} -> 400
      [] OTHER -> 0

(* C19: validate_transaction_item returns the user, the pharmacy, the mask *)
(* and price * quantity when every precondition holds, and otherwise fails *)
(* with the first of: user not found (404), pharmacy not found (404), mask *)
(* absent or of another pharmacy (404), stock < quantity (400), balance <  *)
(* price * quantity (400).                                                 *)
C19_ValidationPrecedence ==
    \A s \in Sessions : sess[s].pc = "validated" =>
        LET req == sess[s].req
            u == req.user_id
            p == req.items[1].pharmacy_id
            m == req.items[1].mask_id
            q == req.items[1].quantity
            r == ValidateTransactionItem(NewSession(req), u, p, m, q)
            expected == ExpectedDetail(u, p, m, q)
        IN /\ r.detail = expected
           /\ r.status = ExpectedStatus(expected)
           /\ sess[s].status = r.status
           /\ sess[s].total_amount = r.total_amount
           /\ expected = "" =>
                 /\ r.total_amount = db.masks[m].price * q
                 /\ r.sess.users[u].cur = db.users[u]
                 /\ r.sess.pharmacies[p].cur = db.pharmacies[p]
                 /\ r.sess.masks[m].cur = db.masks[m]

C19_Witness ==
    \E s \in Sessions :
        /\ sess[s].pc = "validated" /\ sess[s].status = 400
        /\ db.masks[sess[s].req.items[1].mask_id].stock_quantity
              < sess[s].req.items[1].quantity
        /\ db.users[sess[s].req.user_id]
              < db.masks[sess[s].req.items[1].mask_id].price
                  * sess[s].req.items[1].quantity

(* C20: validation is read-only: however often it is called and whatever   *)
(* it answers, no row of the store changes and the session is left with    *)
(* nothing to write.                                                       *)
C20_ValidationReadOnly ==
    [][/\ db' = db
       /\ \A s \in Sessions :
             /\ ~HasWrites(sess'[s])
             /\ Flush(sess'[s]) = db]_vars

C20_Witness ==
    \E s \in Sessions :
        /\ sess[s].pc = "validated" /\ sess[s].status = 404
        /\ Cardinality(DOMAIN sess[s].masks) = 2
        /\ Cardinality(DOMAIN sess[s].users) = 2

StockOnlyRequests ==
    StockRequests \o
    << StockUpdateRequest(1, 0 - InitStock),
       StockUpdateRequest(1, 0),
       StockUpdateRequest(2, 0 - 1),
       StockUpdateRequest(1, 1),
       StockUpdateRequest(Len(InitMasks) + 1, 1) >>

StockInit == InitWith(StockOnlyRequests)

StockNext ==
    \E s \in Sessions :
        \/ UpdateStockLock(s)
        \/ Commit(s)
        \/ Refresh(s)
        \/ Close(s)
        \/ StoreFailure(s)

StockSpec == StockInit /\ [][StockNext]_vars

(* C22: a stock adjustment of a mask that does not exist answers 404; one  *)
(* whose result, the stock the store holds plus quantity_change, would be  *)
(* negative answers 400; any other, a result of exactly 0 included, goes   *)
(* on to commit.  A refused adjustment never changes the store.            *)
C22_StockAdjustmentChecks ==
    /\ [](\A s \in Sessions :
            (sess[s].req.kind = "stock" /\ sess[s].status \in {400, 404}) =>
                ~sess[s].committed /\ FlushKeys(sess[s]) = {})
    /\ [][\A s \in Sessions :
            LET ss == sess[s]
                m == ss.req.mask_id
            IN /\ (ss.req.kind = "stock" /\ ss.pc = "lock_mask"
                     /\ sess'[s].pc # "lock_mask" /\ sess'[s].store_error = "") =>
                    IF ~MaskExists(m)
                    THEN sess'[s].status = 404 /\ db' = db
                    ELSE IF db.masks[m].stock_quantity + ss.req.quantity_change < 0
                    THEN sess'[s].status = 400 /\ db' = db
                    ELSE sess'[s].status = 0 /\ sess'[s].pc = "commit"
               /\ (ss.req.kind = "stock" /\ ss.status \in {400, 404}
                     /\ sess'[s] # ss) => db' = db]_vars

C22_Witness ==
    \E s, t \in Sessions :
        /\ sess[s].req.kind = "stock" /\ sess[s].status = 400
        /\ sess[t].req.kind = "stock" /\ sess[t].status = 200
        /\ sess[t].req.quantity_change < 0
        /\ db.masks[sess[t].req.mask_id].stock_quantity = 0
        /\ sess[s].req.mask_id = sess[t].req.mask_id

C22_WitnessMissing ==
    \E s \in Sessions :
        /\ sess[s].req.kind = "stock" /\ sess[s].status = 404
        /\ sess[s].pc = "done"

StockChanges(m) ==
    Sum([s \in Sessions |->
           IF sess[s].req.kind = "stock" /\ sess[s].req.mask_id = m
              /\ sess[s].committed
           THEN sess[s].req.quantity_change ELSE 0])

(* C23: the commit of a stock adjustment sets the mask's stock to the      *)
(* stock the store held plus quantity_change, which is the new_quantity    *)
(* the handler computed for its response; an adjustment answers 200 only   *)
(* once committed; and after any number of adjustments every mask's stock  *)
(* is its initial stock plus the sum of the committed changes.             *)
C23_StockAdjustmentApplied ==
    /\ [](\A m \in DOMAIN db.masks :
            db.masks[m].stock_quantity = InitMasks[m].stock_quantity + StockChanges(m))
    /\ [](\A s \in Sessions :
            (sess[s].req.kind = "stock" /\ sess[s].status = 200) => sess[s].committed)
    /\ [][\A s \in Sessions :
            LET ss == sess[s]
                m == ss.req.mask_id
            IN (ss.req.kind = "stock" /\ ss.pc = "commit" /\ sess'[s].committed) =>
                  /\ db'.masks[m].stock_quantity =
                        db.masks[m].stock_quantity + ss.req.quantity_change
                  /\ db'.masks[m].stock_quantity = ss.masks[m].cur.stock_quantity
                  /\ ss.masks[m].loaded.stock_quantity = db.masks[m].stock_quantity]_vars

C23_Witness ==
    /\ \A s \in Sessions :
          /\ sess[s].req.kind = "stock" /\ sess[s].status = 200
          /\ sess[s].req.mask_id = 1
    /\ \E s \in Sessions : sess[s].req.quantity_change = 0
    /\ \E s \in Sessions : sess[s].req.quantity_change # 0

(***************************************************************************)
(* batch_manage_masks on its own: every session serves one POST /batch.    *)
(* No request of the menu updates two masks, so no two of these sessions   *)
(* can wait for each other in a cycle.                                     *)
(***************************************************************************)
BatchOnlyRequests ==
    BatchRequests \o
    << BatchMaskRequest(1, << BatchItem(0, "c", 1, 1), BatchItem(0, "c", 2, 1) >>),
       BatchMaskRequest(1, << BatchItem(0, "a", 1, 1) >>),
       BatchMaskRequest(1, << BatchItem(0, "c", 1, 1) >>),
       BatchMaskRequest(1, << BatchItem(1, "c", 1, 1) >>),
       BatchMaskRequest(1, << BatchItem(2, "b", 1, 1), BatchItem(0, "d", 1, 1) >>),
       BatchMaskRequest(Cardinality(PharmacyIds) + 1, << BatchItem(0, "c", 1, 1) >>) >>

BatchInit == InitWith(BatchOnlyRequests)

BatchNext ==
    \E s \in Sessions :
        \/ BatchPharmacy(s)
        \/ BatchNames(s)
        \/ BatchItemStep(s)
        \/ Commit(s)
        \/ Refresh(s)
        \/ Close(s)
        \/ StoreFailure(s)

BatchSpec == BatchInit /\ [][BatchNext]_vars

NewItems(req) == {i \in DOMAIN req.masks : req.masks[i].mask_id = 0}

SharedNewName(req) ==
    \E i, j \in NewItems(req) : i # j /\ req.masks[i].name = req.masks[j].name

NewNameExists(req) ==
    \E i \in NewItems(req), m \in DOMAIN db.masks :
        /\ db.masks[m].pharmacy_id = req.pharmacy_id
        /\ db.masks[m].name = req.masks[i].name

(* C24: for an existing pharmacy, a batch request in which two new items   *)
(* (items without mask_id) share a name is answered 409, and so is one in  *)
(* which a new item's name is, when the handler looks, the name of a mask  *)
(* of that pharmacy; a request so refused has queued no update and no      *)
(* create, commits nothing and never changes the store.                    *)
C24_BatchNameConflictRejected ==
    /\ [](\A s \in Sessions :
            LET ss == sess[s]
            IN /\ (ss.req.kind = "batch" /\ PharmacyExists(ss.req.pharmacy_id)
                     /\ SharedNewName(ss.req) /\ ss.status # 0
                     /\ ss.store_error = "") => ss.status = 409
               /\ (ss.req.kind = "batch" /\ ss.status = 409 /\ ss.store_error = "") =>
                     /\ ~ss.committed /\ ss.updated = 0
                     /\ ss.new_masks = << >> /\ FlushKeys(ss) = {})
    /\ [][\A s \in Sessions :
            LET ss == sess[s]
            IN /\ (ss.req.kind = "batch" /\ ss.pc = "names" /\ NewNameExists(ss.req)
                     /\ sess'[s].pc # "names" /\ sess'[s].store_error = "") =>
                     sess'[s].status = 409 /\ db' = db
               /\ (ss.req.kind = "batch" /\ ss.status = 409 /\ ss.store_error = ""
                     /\ sess'[s] # ss) => db' = db]_vars

C24_Witness ==
    \E s, t \in Sessions :
        /\ sess[s].req.kind = "batch" /\ sess[s].status = 409
        /\ SharedNewName(sess[s].req) /\ sess[s].pc = "done"
        /\ sess[t].req.kind = "batch" /\ sess[t].status = 409
        /\ ~SharedNewName(sess[t].req) /\ NewNameExists(sess[t].req)
        /\ sess[t].pc = "done"

(* C25: at every moment the committed masks of one pharmacy have pairwise  *)
(* different names.                                                        *)
C25_NamesUniquePerPharmacy ==
    \A m, n \in DOMAIN db.masks :
        (m # n /\ db.masks[m].pharmacy_id = db.masks[n].pharmacy_id) =>
            db.masks[m].name # db.masks[n].name

(* C26: Transaction rows are append-only.  Every step leaves the rows the  *)
(* store holds as they are, in place; rows are added only by the commit of *)
(* a purchase, and are then exactly the rows that purchase built.          *)
C26_TransactionsAppendOnly ==
    [][/\ Len(db'.transactions) >= Len(db.transactions)
       /\ SubSeq(db'.transactions, 1, Len(db.transactions)) = db.transactions
       /\ db'.transactions # db.transactions =>
             \E s \in Sessions :
                /\ IsPurchase(s) /\ sess[s].pc = "commit" /\ sess'[s].committed
                /\ db'.transactions = db.transactions \o sess[s].new_transactions]_vars

C26_Witness ==
    /\ Len(db.transactions) >= 2
    /\ \E s, t \in Sessions :
          /\ IsPurchase(s) /\ sess[s].committed
          /\ ~IsPurchase(t) /\ sess[t].committed /\ sess[t].pc = "done"
          /\ db.masks # InitMasks

(* C27: what other units of work can read is the committed store, and a    *)
(* purchase reaches it in one step or not at all: every step of a purchase *)
(* but its commit leaves the store as it is, and the commit puts there at  *)
(* once one row per item, the stock of every mask bought and the balances  *)
(* of the buyer and of every pharmacy sold from.  At every instant the     *)
(* store holds all rows of a purchase or none, and none of a purchase that *)
(* did not commit.                                                         *)
C27_NoPartialPurchaseVisible ==
    /\ [](\A s \in Sessions :
            IsPurchase(s) =>
               /\ Cardinality(RowsOf(s)) =
                     IF sess[s].committed THEN Len(sess[s].req.items) ELSE 0)
    /\ [][\A s \in Sessions :
            (IsPurchase(s) /\ sess'[s] # sess[s]) =>
               LET ss == sess[s]
               IN IF sess'[s].committed /\ ~ss.committed
                  THEN /\ Cardinality(RowsOf(s)') = Len(ss.req.items)
                       /\ db'.users[ss.req.user_id] = ss.users[ss.req.user_id].cur
                       /\ \A i \in DOMAIN ss.req.items :
                             LET item == ss.req.items[i]
                             IN /\ db'.masks[item.mask_id].stock_quantity =
                                      ss.masks[item.mask_id].cur.stock_quantity
                                /\ db'.pharmacies[item.pharmacy_id] =
                                      ss.pharmacies[item.pharmacy_id].cur
                  ELSE db' = db]_vars

C27_Witness ==
    \E s, t \in Sessions :
        /\ sess[s].req.kind = "multi" /\ sess[s].pc = "commit"
        /\ Len(sess[s].new_transactions) = Len(sess[s].req.items)
        /\ Len(sess[s].req.items) > 1
        /\ IsPurchase(t) /\ sess[t].pc = "validate" /\ sess[t].users # << >>
        /\ db = InitDb

AmountEarned(p) ==
    Sum([i \in DOMAIN db.transactions |->
           IF db.transactions[i].pharmacy_id = p
           THEN db.transactions[i].total_amount ELSE 0])

TotalMoney(d) ==
    Sum([u \in DOMAIN d.users |-> d.users[u]])
        + Sum([p \in DOMAIN d.pharmacies |-> d.pharmacies[p]])

SucceededChanges(m) ==
    Sum([s \in Sessions |->
           IF sess[s].req.kind = "stock" /\ sess[s].req.mask_id = m
              /\ sess[s].status = 200
           THEN sess[s].req.quantity_change ELSE 0])

AllDone == \A s \in Sessions : sess[s].pc = "done"

(* C31: once all concurrent stock adjustments have answered, every mask's  *)
(* stock is its initial stock plus the quantity_change of exactly the      *)
(* calls that answered 200; and the old_quantity a call works with is the  *)
(* stock the store holds when the call gets the row lock.                  *)
C31_NoLostStockUpdate ==
    /\ [](AllDone =>
            \A m \in DOMAIN db.masks :
                db.masks[m].stock_quantity =
                    InitMasks[m].stock_quantity + SucceededChanges(m))
    /\ [][\A s \in Sessions :
            LET ss == sess[s]
                m == ss.req.mask_id
            IN (ss.req.kind = "stock" /\ ss.pc = "lock_mask"
                  /\ sess'[s].pc = "commit") =>
                  /\ MaskKey(m) \in locks'[s]
                  /\ sess'[s].masks[m].loaded.stock_quantity =
                        db.masks[m].stock_quantity]_vars

(***************************************************************************)
(* Purchases of one mask, some of them multi purchases that list the mask  *)
(* in several items.  Every request of the menu locks its user, then mask  *)
(* 1, then (single purchases) pharmacy 1, so no two sessions can wait for  *)
(* each other in a cycle.                                                  *)
(***************************************************************************)
RepeatedMaskRequests ==
    << MultiPharmacyTransactionCreate(1, [i \in 1..InitStock |-> Item(1, 1, 1)]),
       MultiPharmacyTransactionCreate(2, [i \in 1..(InitStock + 1) |-> Item(1, 1, 1)]),
       TransactionCreate(1, 1, 1, 1),
       TransactionCreate(2, 1, 1, InitStock),
       TransactionCreate(Cardinality(UserIds) + 1, 1, 1, 1) >>

RepeatInit == InitWith(RepeatedMaskRequests)

RepeatNext ==
    \E s \in Sessions :
        \/ SingleValidate(s)
        \/ SingleLockUser(s)
        \/ SingleLockMask(s)
        \/ SingleLockPharmacy(s)
        \/ MultiValidate(s)
        \/ MultiLockUser(s)
        \/ MultiLockMask(s)
        \/ Commit(s)
        \/ Refresh(s)
        \/ Close(s)
        \/ StoreFailure(s)

RepeatSpec == RepeatInit /\ [][RepeatNext]_vars

RequestedOf(req, m) ==
    Sum([i \in DOMAIN req.items |->
           IF req.items[i].mask_id = m THEN req.items[i].quantity ELSE 0])

ListsMaskTwice(req, m) ==
    \E i, j \in DOMAIN req.items :
        i # j /\ req.items[i].mask_id = m /\ req.items[j].mask_id = m

NamesForeignMask(req) ==
    \E i \in DOMAIN req.items :
        /\ MaskExists(req.items[i].mask_id)
        /\ db.masks[req.items[i].mask_id].pharmacy_id # req.items[i].pharmacy_id

(* C33: every committed Transaction row names a user that exists and a     *)
(* mask that exists and belongs to the pharmacy the row names; a purchase  *)
(* with an item whose mask belongs to another pharmacy than the one the    *)
(* item names never commits a row.                                         *)
C33_RowsReferentiallyConsistent ==
    /\ \A i \in DOMAIN db.transactions :
          LET row == db.transactions[i]
          IN /\ UserExists(row.user_id)
             /\ PharmacyExists(row.pharmacy_id)
             /\ MaskExists(row.mask_id)
             /\ db.masks[row.mask_id].pharmacy_id = row.pharmacy_id
    /\ \A s \in Sessions :
          (IsPurchase(s) /\ NamesForeignMask(sess[s].req)) =>
              /\ ~sess[s].committed /\ RowsOf(s) = {}
              /\ sess[s].new_transactions = << >>

C33_Witness ==
    \E s, t \in Sessions :
        /\ IsPurchase(s) /\ NamesForeignMask(sess[s].req)
        /\ sess[s].status = 404 /\ sess[s].pc = "done"
        /\ sess[t].req.kind = "multi" /\ sess[t].committed
        /\ \E i, j \in RowsOf(t) :
              db.transactions[i].pharmacy_id # db.transactions[j].pharmacy_id

Counted(ss) == Len(ss.new_masks) + ss.updated + ss.failed

ForeignItem(req, i) ==
    /\ req.masks[i].mask_id # 0
    /\ ~(/\ MaskExists(req.masks[i].mask_id)
         /\ db.masks[req.masks[i].mask_id].pharmacy_id = req.pharmacy_id)

(* C34: a batch request past the name checks counts every item once: in    *)
(* the loop the items handled so far are the created, the updated and the  *)
(* failed ones, and in a 201 answer created_count + updated_count + the    *)
(* number of failed_items is total_items.  An item whose mask_id is not a  *)
(* mask of the target pharmacy becomes a failed item and queues nothing;   *)
(* the commit leaves that mask as it is and still writes the creates of    *)
(* the same request.                                                       *)
C34_BatchItemsCountedOnce ==
    /\ [](\A s \in Sessions :
            LET ss == sess[s]
            IN /\ (ss.req.kind = "batch" /\ ss.pc = "item") =>
                     Counted(ss) = ss.idx - 1
               /\ (ss.req.kind = "batch" /\ ss.status = 201) =>
                     Counted(ss) = Len(ss.req.masks))
    /\ [][\A s \in Sessions :
            LET ss == sess[s]
            IN /\ (ss.req.kind = "batch" /\ ss.pc = "item"
                     /\ ForeignItem(ss.req, ss.idx) /\ sess'[s] # ss
                     /\ sess'[s].store_error = ss.store_error) =>
                     /\ sess'[s].failed = ss.failed + 1
                     /\ sess'[s].updated = ss.updated
                     /\ sess'[s].new_masks = ss.new_masks
                     /\ FlushKeys(sess'[s]) = FlushKeys(ss)
                     /\ db' = db
               /\ (ss.req.kind = "batch" /\ ss.pc = "commit" /\ sess'[s].committed) =>
                     /\ SubSeq(db'.masks, Len(db.masks) + 1, Len(db'.masks)) =
                           ss.new_masks
                     /\ \A i \in DOMAIN ss.req.masks :
                           (ForeignItem(ss.req, i)
                              /\ MaskExists(ss.req.masks[i].mask_id)) =>
                                 db'.masks[ss.req.masks[i].mask_id] =
                                    db.masks[ss.req.masks[i].mask_id]]_vars

C34_Witness ==
    \E s \in Sessions :
        /\ sess[s].req.kind = "batch" /\ sess[s].status = 201
        /\ sess[s].failed = 1 /\ Len(sess[s].new_masks) = 1
        /\ sess[s].store_error = ""
        /\ \E m \in DOMAIN db.masks :
              /\ db.masks[m].name = sess[s].new_masks[1].name
              /\ db.masks[m].pharmacy_id = sess[s].req.pharmacy_id
        /\ \E i \in DOMAIN sess[s].req.masks :
              /\ ForeignItem(sess[s].req, i)
              /\ db.masks[sess[s].req.masks[i].mask_id] =
                    InitMasks[sess[s].req.masks[i].mask_id]

====
